---- MODULE Spec2Model ----
(***************************************************************************)
(* Model of eval.py: the Evaluator that ingests one observation file per   *)
(* blocker (process_data), keeps a global tracker-frequency index and      *)
(* scores a blocker over all or a subset of the origin domains.            *)
(*                                                                         *)
(* A file is a sequence of text chunks.  The chunks "," and "\n" are the   *)
(* field separator and the line terminator, every other chunk is a piece   *)
(* of text holding neither.  Strings are TLA+ strings, so the identifier   *)
(* stored for a field is exactly the text str.split(",") returns for it,   *)
(* a line terminator included when the field is the last one of the line.  *)
(*                                                                         *)
(* Scores are exact rationals, kept as integers scaled by Scale (the       *)
(* square of the least common multiple of the ranks a file can give).      *)
(***************************************************************************)
EXTENDS Integers, Sequences, FiniteSets, TLC

\* The most lines a file on disk has.
MaxLines == 2

VARIABLES
    disk,               \* the files on disk: path -> text (never written by eval.py)
    blocker_results,    \* self.blocker_results: blocker -> (origin -> set of trackers)
    website_trackers,   \* self.website_trackers: origin -> set of trackers
    tracker_frequency,  \* self.tracker_frequency: tracker -> count
    websites,           \* self.websites: origin -> rank
    eval_func,          \* self.eval_func: the name of the evaluation function in use
    ret,                \* the last call: operation, arguments, how it ended, value returned
    ingested,           \* history: <<file text, blocker>> -> the results of its first completed ingestion
    repeated,           \* history: the last call was a process_data of a text and blocker that had completed before
    aborted             \* history: some process_data call has failed

vars == <<disk, blocker_results, website_trackers, tracker_frequency, websites,
          eval_func, ret, ingested, repeated, aborted>>

----------------------------------------------------------------------------
(* Dictionaries *)

\* d[k] = v on a dict
Put(d, k, v) == [x \in (DOMAIN d) \cup {k} |-> IF x = k THEN v ELSE d[x]]

\* a dict with no key
EmptyDict == [x \in {} |-> 0]

----------------------------------------------------------------------------
(* Reading and splitting text *)

\* The least index of chunk c in s, or Len(s) + 1 when s has none.
RECURSIVE IndexOf(_, _, _)
IndexOf(s, c, i) ==
    IF i > Len(s) THEN Len(s) + 1
    ELSE IF s[i] = c THEN i
    ELSE IndexOf(s, c, i + 1)

\* The text of a sequence of chunks.
RECURSIVE Join(_)
Join(s) == IF s = <<>> THEN "" ELSE Head(s) \o Join(Tail(s))

\* Iterating over an open file: the lines in order, each with its terminator;
\* only the last line can lack one, and no line is empty.
RECURSIVE ReadLines(_)
ReadLines(text) ==
    IF text = <<>> THEN <<>>
    ELSE LET k == IndexOf(text, "\n", 1)
             e == IF k > Len(text) THEN Len(text) ELSE k
         IN  <<SubSeq(text, 1, e)>> \o ReadLines(SubSeq(text, e + 1, Len(text)))

\* line.split(","): the texts between the commas, at least one, the last one
\* holding whatever ends the line.
RECURSIVE Split(_)
Split(line) ==
    LET k == IndexOf(line, ",", 1)
    IN  IF k > Len(line) THEN <<Join(line)>>
        ELSE <<Join(SubSeq(line, 1, k - 1))>> \o Split(SubSeq(line, k + 1, Len(line)))

----------------------------------------------------------------------------
(* Evaluation functions *)

RECURSIVE Gcd(_, _)
Gcd(a, b) == IF b = 0 THEN a ELSE Gcd(b, a % b)

RECURSIVE LcmUpTo(_)
LcmUpTo(n) == IF n <= 1 THEN 1 ELSE LET l == LcmUpTo(n - 1) IN (l * n) \div Gcd(l, n)

\* Scores are kept multiplied by Scale, which every rank's square divides.
Scale == LcmUpTo(MaxLines) * LcmUpTo(MaxLines)

\* ((1 / rank) ** 2) * tracker_frequency
evaluation_function(rank, freq) == (Scale \div (rank * rank)) * freq

\* (1 / rank) * tracker_frequency
alt_evaluation_function(rank, freq) == (Scale \div rank) * freq

EvalFuncs == {"evaluation_function", "alt_evaluation_function"}

\* self.eval_func(rank, freq)
ApplyEval(f, rank, freq) ==
    IF f = "evaluation_function" THEN evaluation_function(rank, freq)
    ELSE alt_evaluation_function(rank, freq)

----------------------------------------------------------------------------
(* process_data *)

\* CountTracker without the test on website_trackers: every occurrence counts.
CountTrackerAlways(st, origin_domain, tracker) ==
    LET wt == IF origin_domain \in DOMAIN st.website_trackers
              THEN st.website_trackers
              ELSE Put(st.website_trackers, origin_domain, {})
        tf == st.tracker_frequency
    IN  [st EXCEPT
            !.tracker_frequency =
                Put(tf, tracker, (IF tracker \in DOMAIN tf THEN tf[tracker] ELSE 0) + 1),
            !.website_trackers =
                Put(wt, origin_domain, wt[origin_domain] \cup {tracker})]

\* CountTracker with the test made on the tracker alone: a tracker seen on
\* any origin is not recorded again.
CountTrackerOnce(st, origin_domain, tracker) ==
    LET wt == IF origin_domain \in DOMAIN st.website_trackers
              THEN st.website_trackers
              ELSE Put(st.website_trackers, origin_domain, {})
        tf == st.tracker_frequency
    IN  IF tracker \notin DOMAIN tf
        THEN [st EXCEPT
                !.tracker_frequency = Put(tf, tracker, 1),
                !.website_trackers =
                    Put(wt, origin_domain, wt[origin_domain] \cup {tracker})]
        ELSE [st EXCEPT !.website_trackers = wt]

\* The frequency update of one tracker on one origin: counted only when the
\* tracker was not yet in website_trackers[origin_domain].
CountTracker(st, origin_domain, tracker) ==
    LET wt == IF origin_domain \in DOMAIN st.website_trackers
              THEN st.website_trackers
              ELSE Put(st.website_trackers, origin_domain, {})
        tf == st.tracker_frequency
    IN  IF tracker \notin wt[origin_domain]
        THEN [st EXCEPT
                !.tracker_frequency =
                    Put(tf, tracker, (IF tracker \in DOMAIN tf THEN tf[tracker] ELSE 0) + 1),
                !.website_trackers =
                    Put(wt, origin_domain, wt[origin_domain] \cup {tracker})]
        ELSE [st EXCEPT !.website_trackers = wt]

\* Whether the loop skips a field.
SkipField(tracker) == tracker = "" \/ tracker = "\n"

\* One turn of the loop over split[1:].
ProcessTracker(st, origin_domain, tracker) ==
    IF SkipField(tracker) THEN st
    ELSE LET c  == CountTracker(st, origin_domain, tracker)
             rs == c.results
         IN  [c EXCEPT !.results =
                Put(rs, origin_domain,
                    (IF origin_domain \in DOMAIN rs THEN rs[origin_domain] ELSE {})
                        \cup {tracker})]

\* The loop over split[1:].
RECURSIVE ProcessTrackers(_, _, _)
ProcessTrackers(st, origin_domain, fields) ==
    IF fields = <<>> THEN st
    ELSE ProcessTrackers(ProcessTracker(st, origin_domain, Head(fields)),
                         origin_domain, Tail(fields))

\* RankAccepted with the assertion stripped.
RankAcceptedUnchecked(ws, origin_domain, rank) == TRUE

\* Whether the line's origin may stand at this rank: it is new, or the
\* assertion on its recorded rank holds.
RankAccepted(ws, origin_domain, rank) ==
    origin_domain \notin DOMAIN ws \/ ws[origin_domain] = rank

\* The body of the loop over the lines, for one line; ok = FALSE when the
\* assertion fails (the AssertionError leaves the method there).
ProcessLine(st, rank, line) ==
    LET split         == Split(line)
        origin_domain == split[1]
    IN  IF ~RankAccepted(st.websites, origin_domain, rank)
        THEN [st EXCEPT !.ok = FALSE]
        ELSE ProcessTrackers(
                [st EXCEPT !.websites =
                    IF origin_domain \in DOMAIN st.websites THEN st.websites
                    ELSE Put(st.websites, origin_domain, rank)],
                origin_domain, Tail(split))

\* The loop over enumerate(f, start=1), from line number rank on.
RECURSIVE ProcessLines(_, _, _)
ProcessLines(st, lines, rank) ==
    IF lines = <<>> \/ ~st.ok THEN st
    ELSE ProcessLines(ProcessLine(st, rank, Head(lines)), Tail(lines), rank + 1)

\* The evaluator's maps after the loop of process_data over a file's text.
Ingest(ws, wt, tf, text) ==
    ProcessLines([websites |-> ws, website_trackers |-> wt, tracker_frequency |-> tf,
                  results |-> EmptyDict, ok |-> TRUE],
                 ReadLines(text), 1)

\* What process_data stores for the blocker: the file's results when the loop
\* completed, nothing when it raised.
StoreResults(br, blocker_name, st) ==
    IF st.ok THEN Put(br, blocker_name, st.results) ELSE br

----------------------------------------------------------------------------
(* Queries *)

\* The sum of eval_func(rank, tracker_frequency[tracker]) over a set of trackers.
RECURSIVE SumTrackers(_, _, _, _)
SumTrackers(f, rank, tf, trackers) ==
    IF trackers = {} THEN 0
    ELSE LET t == CHOOSE u \in trackers : TRUE
         IN  ApplyEval(f, rank, IF t \in DOMAIN tf THEN tf[t] ELSE 0)
                + SumTrackers(f, rank, tf, trackers \ {t})

\* InSubset without the membership test.
InSubsetAny(origin_domain, subset) == TRUE

\* Whether the loop of blocker_subset_score scores an origin.
InSubset(origin_domain, subset) == origin_domain \in subset

\* The loop of blocker_subset_score over the origins of blocked_trackers.
RECURSIVE SumOrigins(_, _, _, _, _, _)
SumOrigins(f, ws, tf, blocked_trackers, origins, subset) ==
    IF origins = {} THEN 0
    ELSE LET o == CHOOSE u \in origins : TRUE
         IN  (IF InSubset(o, subset)
              THEN SumTrackers(f, ws[o], tf, blocked_trackers[o])
              ELSE 0)
                + SumOrigins(f, ws, tf, blocked_trackers, origins \ {o}, subset)

\* BlockedTrackers reading a missing blocker as one with no results.
BlockedTrackersOrEmpty(br, blocker_name) ==
    [status |-> "ok",
     table  |-> IF blocker_name \in DOMAIN br THEN br[blocker_name] ELSE EmptyDict]

\* self.blocker_results[blocker_name]: a plain dict raises KeyError for a
\* missing key.
BlockedTrackers(br, blocker_name) ==
    IF blocker_name \in DOMAIN br
    THEN [status |-> "ok", table |-> br[blocker_name]]
    ELSE [status |-> "KeyError", table |-> EmptyDict]

\* blocker_subset_score as a function of the state: how the call ends and the
\* score it returns.  self.websites[origin_domain] raises KeyError too, for a
\* scored origin with no rank.
SubsetScore(blocker_name, subset) ==
    LET got == BlockedTrackers(blocker_results, blocker_name)
        blocked_trackers == got.table
    IN  IF got.status # "ok" THEN [status |-> got.status, value |-> 0]
        ELSE IF \E o \in DOMAIN blocked_trackers : InSubset(o, subset) /\ o \notin DOMAIN websites
        THEN [status |-> "KeyError", value |-> 0]
        ELSE [status |-> "ok",
              value  |-> SumOrigins(eval_func, websites, tracker_frequency,
                                    blocked_trackers, DOMAIN blocked_trackers, subset)]

\* AllOrigins taking the keys of the wrong dict, self.blocker_results.keys().
AllBlockerNames == DOMAIN blocker_results

\* The subset blocker_score passes on: self.websites.keys().
AllOrigins == DOMAIN websites

\* blocker_score as a function of the state.
Score(blocker_name) == SubsetScore(blocker_name, AllOrigins)

\* self.tracker_frequency[tracker_name], the value read: 0 for an absent key.
Frequency(tracker_name) ==
    IF tracker_name \in DOMAIN tracker_frequency THEN tracker_frequency[tracker_name] ELSE 0

\* tracker_frequency after reading a set of keys: a defaultdict keeps the
\* default of every absent key it is read at.
Touch(tf, keys) == [x \in (DOMAIN tf) \cup keys |-> IF x \in DOMAIN tf THEN tf[x] ELSE 0]

\* The trackers whose frequency a blocker_subset_score call reads.
ScoredTrackers(blocker_name, subset) ==
    LET blocked_trackers == BlockedTrackers(blocker_results, blocker_name).table
    IN  IF SubsetScore(blocker_name, subset).status # "ok" THEN {}
        ELSE UNION { blocked_trackers[o] :
                        o \in { u \in DOMAIN blocked_trackers : InSubset(u, subset) } }

----------------------------------------------------------------------------
(* The calls and what they return *)

Paths == {"first.csv", "second.csv"}

Blockers == {"X", "Ghostery"}

Call(op, arg, status, value) == [op |-> op, arg |-> arg, status |-> status, value |-> value]

\* How a process_data call ends.
IngestStatus(st) == IF st.ok THEN "ok" ELSE "AssertionError"

\* History: the results of the first completed ingestion of <<file text, blocker>>.
NoteIngestion(h, key, st) ==
    IF st.ok /\ key \notin DOMAIN h THEN Put(h, key, st.results) ELSE h

\* process_data(data_file_path, blocker_name)
process_data(data_file_path, blocker_name) ==
    LET st == Ingest(websites, website_trackers, tracker_frequency, disk[data_file_path])
    IN  /\ websites' = st.websites
        /\ website_trackers' = st.website_trackers
        /\ tracker_frequency' = st.tracker_frequency
        /\ blocker_results' = StoreResults(blocker_results, blocker_name, st)
        /\ ret' = Call("process_data", <<data_file_path, blocker_name>>, IngestStatus(st), 0)
        /\ ingested' = NoteIngestion(ingested, <<disk[data_file_path], blocker_name>>, st)
        /\ repeated' = (<<disk[data_file_path], blocker_name>> \in DOMAIN ingested)
        /\ aborted' = (aborted \/ ~st.ok)
        /\ UNCHANGED <<disk, eval_func>>

\* get_frequency(tracker_name)
get_frequency(tracker_name) ==
    /\ ret' = Call("get_frequency", <<tracker_name>>, "ok", Frequency(tracker_name))
    /\ tracker_frequency' = Touch(tracker_frequency, {tracker_name})
    /\ repeated' = FALSE
    /\ UNCHANGED <<disk, blocker_results, website_trackers, websites, eval_func,
                   ingested, aborted>>

\* blocker_subset_score(blocker_name, subset)
blocker_subset_score(blocker_name, subset) ==
    LET r == SubsetScore(blocker_name, subset)
    IN  /\ ret' = Call("blocker_subset_score", <<blocker_name, subset>>, r.status, r.value)
        /\ tracker_frequency' = Touch(tracker_frequency, ScoredTrackers(blocker_name, subset))
        /\ repeated' = FALSE
        /\ UNCHANGED <<disk, blocker_results, website_trackers, websites, eval_func,
                       ingested, aborted>>

\* blocker_score(blocker_name)
blocker_score(blocker_name) ==
    LET r == Score(blocker_name)
    IN  /\ ret' = Call("blocker_score", <<blocker_name>>, r.status, r.value)
        /\ tracker_frequency' = Touch(tracker_frequency, ScoredTrackers(blocker_name, AllOrigins))
        /\ repeated' = FALSE
        /\ UNCHANGED <<disk, blocker_results, website_trackers, websites, eval_func,
                       ingested, aborted>>

\* set_evaluation_function(evaluation_function)
set_evaluation_function(f) ==
    /\ eval_func' = f
    /\ ret' = Call("set_evaluation_function", <<f>>, "ok", 0)
    /\ repeated' = FALSE
    /\ UNCHANGED <<disk, blocker_results, website_trackers, tracker_frequency, websites,
                   ingested, aborted>>

----------------------------------------------------------------------------
(* The files *)

Google == "Google.com"
Youtube == "Youtube.com"
Adservice == "adservice.google.com/"
Doubleclick == "static.doubleclick.net/"

Amazon == "Amazon.com"
AmazonAds == "c.amazon-adsystem.com/"

\* The lines the first file is made of: a last tracker before the line
\* terminator, a trailing comma, a tracker twice on a line, a tracker on a
\* second origin, a blank line, an origin with no tracker, an empty field and
\* no terminator.
IngestLines ==
    { <<Google, ",", Adservice, "\n">>,
      <<Youtube, ",", Doubleclick, "\n">>,
      <<Google, ",", Adservice, ",", Adservice, ",", "\n">>,
      <<Youtube, ",", Adservice, ",", Doubleclick, ",", "\n">>,
      <<"\n">>,
      <<Google, "\n">>,
      <<Youtube, ",", ",", Doubleclick>> }

\* The example of the module's docstring, its first two lines.
ExampleFile ==
    <<Google, ",", Adservice, "\n", Youtube, ",", Doubleclick, "\n">>

\* The files the second path can hold: the example, the same sites in the
\* other order, a file on another site, a file whose last line has no
\* terminator, an empty file.
CompanionFiles ==
    { ExampleFile,
      <<Youtube, ",", Doubleclick, ",", "\n", Google, ",", Adservice, ",", "\n">>,
      <<Amazon, ",", AmazonAds, ",", "\n">>,
      <<Google, ",", Doubleclick, ",", Adservice>>,
      <<>> }

\* The text of a sequence of lines.
RECURSIVE Concat(_)
Concat(ls) == IF ls = <<>> THEN <<>> ELSE Head(ls) \o Concat(Tail(ls))

\* The files of at most MaxLines lines taken from a set of lines.
FilesOf(lineset) ==
    UNION { { Concat(ls) : ls \in [1..n -> lineset] } : n \in 0..MaxLines }

InitEvaluator ==
    /\ blocker_results = EmptyDict
    /\ website_trackers = EmptyDict
    /\ tracker_frequency = EmptyDict
    /\ websites = EmptyDict
    /\ eval_func = "evaluation_function"
    /\ ret = Call("__init__", <<>>, "ok", 0)
    /\ ingested = EmptyDict
    /\ repeated = FALSE
    /\ aborted = FALSE

InitIngest ==
    /\ \E f \in FilesOf(IngestLines), c \in CompanionFiles :
            disk = [p \in Paths |-> IF p = "first.csv" THEN f ELSE c]
    /\ InitEvaluator

NextIngest ==
    \E p \in Paths, b \in Blockers : process_data(p, b)

SpecIngest == InitIngest /\ [][NextIngest]_vars

\* The lines the first file of the scoring runs is made of.
ScoreLines ==
    { <<Google, ",", Adservice, "\n">>,
      <<Youtube, ",", Adservice, ",", Doubleclick, ",", "\n">>,
      <<Google, ",", Doubleclick, ",", "\n">> }

\* The second file of the scoring runs.
ScoreCompanions ==
    { ExampleFile,
      <<Youtube, ",", Doubleclick, ",", "\n", Google, ",", Adservice, ",", "\n">>,
      <<Amazon, ",", AmazonAds, ",", "\n">> }

\* The trackers get_frequency is asked about.
QueryTrackers == {Adservice, Doubleclick}

\* The subsets blocker_subset_score is asked about.
QuerySubsets == {{}, {Google}, {Youtube, Amazon}, {Google, Youtube, Amazon}}

Init ==
    /\ \E f \in FilesOf(ScoreLines), c \in ScoreCompanions :
            disk = [p \in Paths |-> IF p = "first.csv" THEN f ELSE c]
    /\ InitEvaluator

Next ==
    \/ \E p \in Paths, b \in Blockers : process_data(p, b)
    \/ \E t \in QueryTrackers : get_frequency(t)
    \/ \E b \in Blockers : blocker_score(b)
    \/ \E b \in Blockers, s \in QuerySubsets : blocker_subset_score(b, s)
    \/ \E f \in EvalFuncs : set_evaluation_function(f)

Spec == Init /\ [][Next]_vars

----------------------------------------------------------------------------
(* What a file reports, read by the format of the module's docstring *)

\* The fields of a line: its text without the terminator, cut at the commas.
FieldsOf(line) == Split(SelectSeq(line, LAMBDA c : c # "\n"))

\* The (origin, tracker) pairs a file reports: on each line the first field is
\* the origin and every later field that is not empty is a tracker.
ReportedPairs(text) ==
    LET lines == ReadLines(text)
    IN  UNION { { <<FieldsOf(lines[k])[1], FieldsOf(lines[k])[i]>> :
                    i \in { j \in 2..Len(FieldsOf(lines[k])) : FieldsOf(lines[k])[j] # "" } } :
                k \in 1..Len(lines) }

\* The pairs reported by the files whose ingestion has completed.
Reported == UNION { ReportedPairs(k[1]) : k \in DOMAIN ingested }

\* The last call, when it is a process_data: its file's lines and its blocker.
LastLines == ReadLines(disk[ret.arg[1]])
LastBlocker == ret.arg[2]

\* The origin process_data takes from a line.
OriginOf(line) == Split(line)[1]

\* The trackers of a blocker's result table.
TrackersIn(table) == UNION { table[o] : o \in DOMAIN table }

----------------------------------------------------------------------------
(* Claims on ingestion, under SpecIngest *)

\* C1: while no call has failed, for every tracker t get_frequency(t) is the
\* number of distinct origin domains on which the ingested files report t.
C1_FrequencyIsReportedOrigins ==
    ~aborted =>
        \A t \in { pr[2] : pr \in Reported } :
            Frequency(t) = Cardinality({ pr[1] : pr \in { q \in Reported : q[2] = t } })

\* An origin of these lines stands at a line number other than the rank ws
\* records for it, or other than an earlier line of the same file.
MeetsConflict(ws, lines) ==
    \E k \in 1..Len(lines) :
        \/ OriginOf(lines[k]) \in DOMAIN ws /\ ws[OriginOf(lines[k])] # k
        \/ \E j \in 1..(k - 1) : OriginOf(lines[j]) = OriginOf(lines[k])

C6_ReingestionChangesNothing ==
    [][ (ret'.op = "process_data" /\ repeated') =>
            /\ ret'.status = "ok"
            /\ tracker_frequency' = tracker_frequency
            /\ website_trackers' = website_trackers
            /\ blocker_results'[ret'.arg[2]] = ingested[<<disk[ret'.arg[1]], ret'.arg[2]>>]
      ]_vars

\* A file with trackers has been ingested again, after another file had
\* replaced the blocker's results.
C6_Witness ==
    /\ ret.op = "process_data"
    /\ repeated
    /\ ret.status = "ok"
    /\ TrackersIn(blocker_results[LastBlocker]) # {}
    /\ \E k \in DOMAIN ingested : k[2] = LastBlocker /\ k[1] # disk[ret.arg[1]]

\* Exactly two ingestions have completed, none has failed, they are of
\* different blockers, each reported some tracker, and their results share no
\* origin and no tracker.
TwoDisjointBlockers ==
    /\ ~aborted
    /\ \E k1 \in DOMAIN ingested, k2 \in DOMAIN ingested :
            /\ DOMAIN ingested = {k1, k2}
            /\ k1[2] # k2[2]
            /\ TrackersIn(ingested[k1]) # {}
            /\ TrackersIn(ingested[k2]) # {}
            /\ DOMAIN ingested[k1] \cap DOMAIN ingested[k2] = {}
            /\ TrackersIn(ingested[k1]) \cap TrackersIn(ingested[k2]) = {}

\* C7 as stated: after two blockers that reported disjoint trackers on
\* disjoint origins, every recorded tracker has frequency 1.
C7_DisjointFrequencyIsOne ==
    TwoDisjointBlockers =>
        \A b \in DOMAIN blocker_results :
            \A t \in TrackersIn(blocker_results[b]) : Frequency(t) = 1

\* C7 amended: after two blockers that reported disjoint trackers on disjoint
\* origins, the frequency of a recorded tracker is the number of origins on
\* which its blocker reported it.
C7_DisjointFrequencyIsOwnOrigins ==
    TwoDisjointBlockers =>
        \A b \in DOMAIN blocker_results :
            \A t \in TrackersIn(blocker_results[b]) :
                Frequency(t) = Cardinality({ o \in DOMAIN blocker_results[b] :
                                                t \in blocker_results[b][o] })

\* One of the two blockers reported a tracker on two origins.
C7_Witness ==
    /\ TwoDisjointBlockers
    /\ \E t \in DOMAIN tracker_frequency : tracker_frequency[t] = 2

\* C8: a process_data call on a file with a blank line ends in an error.
C8_BlankLineFails ==
    (ret.op = "process_data" /\ \E k \in 1..Len(LastLines) : LastLines[k] = <<"\n">>)
        => ret.status # "ok"

\* C9: the docstring's two lines, ingested as "X" into a fresh Evaluator, give
\* ranks 1 and 2, frequency 1 for each of the two trackers by name, and the
\* score 1.25.
C9_DocstringExample ==
    (~aborted /\ DOMAIN ingested = {<<ExampleFile, "X">>}) =>
        /\ websites = [o \in {Google, Youtube} |-> IF o = Google THEN 1 ELSE 2]
        /\ Score("X") = [status |-> "ok", value |-> (5 * Scale) \div 4]
        /\ Frequency(Adservice) = 1
        /\ Frequency(Doubleclick) = 1

\* C10: every tracker of every blocker's results is indexed: its origin has a
\* rank, the tracker is in website_trackers of that origin and its frequency is
\* at least 1; so scoring an ingested blocker raises nothing.
C10_ResultsAreIndexed ==
    \A b \in DOMAIN blocker_results :
        /\ \A o \in DOMAIN blocker_results[b] :
            /\ o \in DOMAIN websites
            /\ o \in DOMAIN website_trackers
            /\ \A t \in blocker_results[b][o] :
                /\ t \in website_trackers[o]
                /\ t \in DOMAIN tracker_frequency
                /\ tracker_frequency[t] >= 1
        /\ Score(b).status = "ok"

\* A call has failed part-way, after recording a tracker on an origin, while
\* a blocker holds results.
C10_Witness ==
    /\ aborted
    /\ ret.status = "AssertionError"
    /\ Len(LastLines) >= 2
    /\ TrackersIn(website_trackers) # {}
    /\ \E b \in DOMAIN blocker_results : TrackersIn(blocker_results[b]) # {}

----------------------------------------------------------------------------
(* Claims on scoring, under Spec *)

\* The sum of eval_func(rank(o), frequency(t)) over a set of (o, t) pairs.
RECURSIVE PairSum(_)
PairSum(pairs) ==
    IF pairs = {} THEN 0
    ELSE LET pr == CHOOSE q \in pairs : TRUE
         IN  ApplyEval(eval_func, websites[pr[1]], Frequency(pr[2])) + PairSum(pairs \ {pr})

\* The pairs (o, t) with o in the subset, o reported by the blocker and t in
\* the blocker's tracker set for o.
SubsetPairs(blocker_name, subset) ==
    { pr \in (DOMAIN blocker_results[blocker_name])
                \X TrackersIn(blocker_results[blocker_name]) :
        pr[1] \in subset /\ pr[2] \in blocker_results[blocker_name][pr[1]] }

\* C3: for an ingested blocker b and a subset S, blocker_subset_score(b, S)
\* returns the sum of eval_func(rank(o), frequency(t)) over exactly the pairs
\* (o, t) with o in S, o reported by b and t in b's tracker set for o.
C3_SubsetScoreIsPairSum ==
    (ret.op = "blocker_subset_score" /\ ret.arg[1] \in DOMAIN blocker_results) =>
        /\ ret.status = "ok"
        /\ ret.value = PairSum(SubsetPairs(ret.arg[1], ret.arg[2]))

\* A subset score above 0 of a blocker that reported an origin outside the
\* subset, for a subset holding an origin the blocker never reported.
C3_Witness ==
    /\ ret.op = "blocker_subset_score"
    /\ ret.status = "ok"
    /\ ret.value > 0
    /\ \E o \in DOMAIN blocker_results[ret.arg[1]] : o \notin ret.arg[2]
    /\ \E o \in ret.arg[2] : o \notin DOMAIN blocker_results[ret.arg[1]]

\* C4: for an ingested blocker b, blocker_score(b) returns what
\* blocker_subset_score(b, all_origins) returns, all_origins being the origins
\* recorded in websites.
C4_ScoreIsSubsetScoreOfAllOrigins ==
    (ret.op = "blocker_score" /\ ret.arg[1] \in DOMAIN blocker_results) =>
        /\ ret.status = "ok"
        /\ ret.value = SubsetScore(ret.arg[1], DOMAIN websites).value
        /\ ret.value = PairSum(SubsetPairs(ret.arg[1], DOMAIN websites))

\* A full score above 0 of a blocker, with an origin recorded that the blocker
\* never reported.
C4_Witness ==
    /\ ret.op = "blocker_score"
    /\ ret.status = "ok"
    /\ ret.value > 0
    /\ \E o \in DOMAIN websites : o \notin DOMAIN blocker_results[ret.arg[1]]

\* C5: blocker_score and blocker_subset_score, called with a blocker for
\* which no process_data call has completed, end in an error.
C5_UnknownBlockerFails ==
    (/\ ret.op \in {"blocker_score", "blocker_subset_score"}
     /\ \A k \in DOMAIN ingested : k[2] # ret.arg[1]) =>
        ret.status = "KeyError"

\* A score was asked for a blocker whose only ingestion had failed, another
\* blocker being ingested.
C5_Witness ==
    /\ ret.op \in {"blocker_score", "blocker_subset_score"}
    /\ ret.status = "KeyError"
    /\ aborted
    /\ DOMAIN ingested # {}
    /\ \A k \in DOMAIN ingested : k[2] # ret.arg[1]

====
